---- MODULE Spec2Model ----
(***************************************************************************)
(* Model of src/capture/capture.py (CameraFrameCapture): the session       *)
(* lifecycle (open / close / read / get_actual_properties), the frame      *)
(* iterator (__iter__) and the interval-gated recorder (save_stream).      *)
(*                                                                         *)
(* The cv2 backend is the environment.  Every cv2.VideoCapture(source)     *)
(* call creates a new entry of `handles`; whether it reports isOpened(),   *)
(* whether a read yields a frame, whether release() or imwrite() succeed   *)
(* and what time.time() returns are chosen nondeterministically.           *)
(* Seconds are modelled as naturals and time.time() as non-decreasing.     *)
(* The methods of the session are operators on the session value (open,    *)
(* close, read, get_actual_properties); a call from outside is one action. *)
(* save_stream is split at its statements, so that a KeyboardInterrupt     *)
(* can arrive between any two of them.                                     *)
(***************************************************************************)
EXTENDS Integers, Sequences, FiniteSets, TLC

(* ------------------------------ bounds --------------------------------- *)
MaxHandles  == 2      \* cv2.VideoCapture objects constructed in one behaviour
MaxReads    == 3      \* frames one handle yields before its source is exhausted
MaxClock    == 4      \* largest time.time() reading
MaxInterval == 2      \* largest `interval` argument of save_stream
ScenarioFrames == 5   \* frames of the fixture source in the end-to-end run
MaxImages   == 3      \* image files in the directory ImageDeduplicator works on

(* ------------------------------ values --------------------------------- *)
Null == 0             \* None, as the value of self._cap
None == -1            \* None, as a config field
\* None, as a return value or an unbound local; values carry their type
NoValue == [type |-> "NoneType"]

\* CameraConfig values (src/configs/camera is consumed through these fields)
Configs ==
  { [source |-> 0, width |-> None, height |-> None, fps |-> None, convert_to_rgb |-> FALSE],
    [source |-> 0, width |-> 640,  height |-> None, fps |-> None, convert_to_rgb |-> FALSE],
    [source |-> 0, width |-> 640,  height |-> 480,  fps |-> 30,   convert_to_rgb |-> TRUE] }

Prefixes == {"f", "frame"}

\* (width, height, fps) as cap.get(prop) can report them: an unavailable
\* property is 0, some backends answer -1
Reported == { <<640, 480, 30>>, <<640, 480, 0>>, <<0, 0, 0>>, <<640, 480, -1>> }

VARIABLES
  config,         \* self.config
  scope,          \* "in" while a `with session:` block is executing, else "out"
  cap,            \* self._cap: index into handles, or Null
  is_open,        \* self._is_open
  handles,        \* backend: every cv2.VideoCapture constructed so far
  nread,          \* backend: frames the capture in self._cap has delivered,
                  \* 0 when self._cap is None
  op,             \* the call that completed last
  err,            \* the exception it raised, or "none"
  ret,            \* the value it returned, or NoValue
  req,            \* the handle whose read() the last step called, or Null
  got,            \* what self._cap.get reported to the last step, or NoValue
  it_pc,          \* generator of __iter__: "none", "created", "suspended", "done"
  ss_pc,          \* position inside save_stream, "idle" outside
  interval,       \* save_stream argument
  filename_prefix,\* save_stream argument
  last_save_time, \* save_stream local
  frame_count,    \* save_stream local
  current_time,   \* save_stream local
  frame,          \* save_stream local
  first_iter,     \* TRUE until the first evaluation of the gate of a run
  pulls,          \* frames self.read() returned to this run
  attempts,       \* file names handed to save_frame by this run
  written,        \* files imwrite stored in this run
  save_times,     \* for the last two of them: t the time.time() reading of
                  \* the iteration, at the time the write ended
  clock           \* the latest wall-clock time observed, 0 before any

sessVars == <<config, scope, cap, is_open, handles, nread>>
callVars == <<op, err, ret, req, got>>
iterVars == <<it_pc>>
runVars  == <<ss_pc, interval, filename_prefix, last_save_time, frame_count,
              current_time, frame, first_iter, pulls, attempts, written,
              save_times>>
captureVars == <<config, scope, cap, is_open, handles, nread, op, err, ret, req, got, it_pc,
          ss_pc, interval, filename_prefix, last_save_time, frame_count,
          current_time, frame, first_iter, pulls, attempts, written,
          save_times, clock>>

\* ImageDeduplicator (dataset_tools/deduplicator.py) and the two directories
\* it works on
VARIABLES
  directory,             \* names of the image files in image_dir
  label_files,           \* names of the files in labels_dir
  image_dir,             \* self.image_dir
  duplicates_map,        \* self.duplicates_map
  files_with_duplicates, \* self.files_with_duplicates
  duplicates,            \* self.duplicates
  dd_pc,                 \* "idle", or "loop" inside delete_duplicates
  dry_run,               \* delete_duplicates argument
  labels_dir,            \* delete_duplicates argument: TRUE when not None
  pending,               \* files the for loop of delete_duplicates has yet to visit
  removed_files,         \* delete_duplicates local, its return value
  dd_err                 \* the exception the last deduplicator call raised, or "none"

dedupVars == <<directory, label_files, image_dir, duplicates_map,
               files_with_duplicates, duplicates, dd_pc, dry_run, labels_dir,
               pending, removed_files, dd_err>>

vars == <<captureVars, dedupVars>>

(* --------------------------- the session ------------------------------- *)
\* the session as a value, so that one method can call another
Self == [cap |-> cap, is_open |-> is_open, handles |-> handles, nread |-> nread,
         err |-> "none", ret |-> NoValue, req |-> Null, got |-> NoValue]

\* cap.set(...) calls of open(), in order
ApplyProps(cfg) ==
  (IF cfg.width  # None THEN << <<"FRAME_WIDTH",  cfg.width>> >>  ELSE << >>) \o
  (IF cfg.height # None THEN << <<"FRAME_HEIGHT", cfg.height>> >> ELSE << >>) \o
  (IF cfg.fps    # None THEN << <<"FPS",          cfg.fps>> >>    ELSE << >>)

\* cv2.VideoCapture(source); acquired: the backend holds the device
VideoCapture(ok) ==
  [opened |-> ok, acquired |-> ok, releases |-> 0, sets |-> << >>]

\* cap.release(); a failing release leaves the device held
release(h, rel_ok) ==
  [h EXCEPT !.releases = @ + 1,
            !.acquired = IF rel_ok THEN FALSE ELSE @]

\* open() without the early return of lines 26-27
open_reacquire(s, cfg, ok) ==
  IF ~ok
    THEN [s EXCEPT !.handles = Append(@, release(VideoCapture(FALSE), TRUE)),
                   !.err = "CameraOpenError"]
    ELSE [s EXCEPT !.handles = Append(@, [VideoCapture(TRUE) EXCEPT
                                            !.sets = ApplyProps(cfg)]),
                   !.cap = Len(s.handles) + 1,
                   !.nread = 0,
                   !.is_open = TRUE,
                   !.err = "none"]

\* open() that keeps the capture that failed to open, unreleased, in _cap
open_keep(s, cfg, ok) ==
  IF s.is_open
    THEN [s EXCEPT !.err = "none"]
    ELSE [s EXCEPT !.handles = Append(@, [VideoCapture(ok) EXCEPT
                                            !.sets = IF ok THEN ApplyProps(cfg)
                                                           ELSE << >>]),
                   !.cap = Len(s.handles) + 1,
                   !.nread = 0,
                   !.is_open = ok,
                   !.err = IF ok THEN "none" ELSE "CameraOpenError"]

\* CameraFrameCapture.open: s the session, ok what cap.isOpened() answers.
\* release() of a capture that never opened has nothing to free and succeeds.
open(s, cfg, ok) ==
  IF s.is_open
    THEN [s EXCEPT !.err = "none"]
    ELSE IF ~ok
      THEN [s EXCEPT !.handles = Append(@, release(VideoCapture(FALSE), TRUE)),
                     !.err = "CameraOpenError"]
      ELSE [s EXCEPT !.handles = Append(@, [VideoCapture(TRUE) EXCEPT
                                              !.sets = ApplyProps(cfg)]),
                     !.cap = Len(s.handles) + 1,
                     !.nread = 0,
                     !.is_open = TRUE,
                     !.err = "none"]

\* close() without line 56
close_noreset(s, rel_ok) ==
  [s EXCEPT !.handles = IF s.cap # Null
                          THEN [@ EXCEPT ![s.cap] = release(@, rel_ok)]
                          ELSE @,
            !.cap = Null,
            !.nread = 0,
            !.err = "none"]

\* close() without contextlib.suppress: a failing release propagates
close_nosuppress(s, rel_ok) ==
  IF s.cap # Null /\ ~rel_ok
    THEN [s EXCEPT !.handles[s.cap] = release(@, rel_ok),
                   !.err = "Exception"]
    ELSE [s EXCEPT !.handles = IF s.cap # Null
                                 THEN [@ EXCEPT ![s.cap] = release(@, rel_ok)]
                                 ELSE @,
                   !.cap = Null,
                   !.nread = 0,
                   !.is_open = FALSE,
                   !.err = "none"]

\* CameraFrameCapture.close: rel_ok FALSE when self._cap.release() raises
close(s, rel_ok) ==
  [s EXCEPT !.handles = IF s.cap # Null
                          THEN [@ EXCEPT ![s.cap] = release(@, rel_ok)]
                          ELSE @,
            !.cap = Null,
            !.nread = 0,
            !.is_open = FALSE,
            !.err = "none"]

\* the frame self._cap.read() hands out: the n-th frame of handle h;
\* rgb after cv2.cvtColor(frame, COLOR_BGR2RGB)
Frame(h, n, rgb) == [type |-> "ndarray", h |-> h, n |-> n, rgb |-> rgb]

\* read() without lines 64-65: on a closed session self._cap is None
read_noopen(s, cfg, open_ok, read_ok) ==
  IF ~s.is_open
    THEN [s EXCEPT !.err = "AttributeError"]
    ELSE LET h == s.cap IN
         IF ~read_ok
           THEN [s EXCEPT !.req = h, !.err = "CameraReadError"]
           ELSE [s EXCEPT !.req = h,
                          !.nread = @ + 1,
                          !.ret = Frame(h, s.nread + 1, cfg.convert_to_rgb)]

\* read() that reports a failed implicit open as a read failure
read_wrap(s, cfg, open_ok, read_ok) ==
  LET o == IF ~s.is_open THEN open(s, cfg, open_ok) ELSE s IN
  IF o.err # "none"
    THEN [o EXCEPT !.err = "CameraReadError"]
    ELSE LET h == o.cap IN
         IF ~read_ok
           THEN [o EXCEPT !.req = h, !.err = "CameraReadError"]
           ELSE [o EXCEPT !.req = h,
                          !.nread = @ + 1,
                          !.ret = Frame(h, o.nread + 1, cfg.convert_to_rgb)]

\* CameraFrameCapture.read: open_ok answers the implicit open, read_ok is
\* the flag of self._cap.read()
read(s, cfg, open_ok, read_ok) ==
  LET o == IF ~s.is_open THEN open(s, cfg, open_ok) ELSE s IN
  IF o.err # "none"
    THEN o
    ELSE LET h == o.cap IN
         IF ~read_ok
           THEN [o EXCEPT !.req = h, !.err = "CameraReadError"]
           ELSE [o EXCEPT !.req = h,
                          !.nread = @ + 1,
                          !.ret = Frame(h, o.nread + 1, cfg.convert_to_rgb)]

\* `x or 0` of get_actual_properties
OrZero(x) == IF x = 0 THEN 0 ELSE x

\* CameraFrameCapture.get_actual_properties: w, h, f what cap.get reports
get_actual_properties(s, cfg, open_ok, w, h, f) ==
  LET o == IF ~s.is_open THEN open(s, cfg, open_ok) ELSE s IN
  IF o.err # "none"
    THEN o
    ELSE [o EXCEPT !.got = [type |-> "tuple", width |-> w, height |-> h,
                            fps |-> f],
                   !.ret = [type |-> "tuple", width |-> OrZero(w),
                            height |-> OrZero(h), fps |-> OrZero(f)]]

(* ----------------------------- helpers --------------------------------- *)
\* a new cv2.VideoCapture fits the bound
CanAcquire == Len(handles) < MaxHandles
\* the source behind the handle a read uses is not yet exhausted
MayYield(s) == s.nread < MaxReads

Store(s, name) ==
  /\ cap' = s.cap
  /\ is_open' = s.is_open
  /\ handles' = s.handles
  /\ nread' = s.nread
  /\ err' = s.err
  /\ ret' = s.ret
  /\ req' = s.req
  /\ got' = s.got
  /\ op' = name

Idle == ss_pc = "idle"

(* ------------------------------ Init ----------------------------------- *)
\* ImageDeduplicator.__init__
InitDeduplicator ==
  /\ image_dir = NoValue
  /\ duplicates_map = NoValue
  /\ files_with_duplicates = NoValue
  /\ duplicates = NoValue
  /\ dd_pc = "idle" /\ dry_run = FALSE /\ labels_dir = FALSE
  /\ pending = {} /\ removed_files = << >> /\ dd_err = "none"

\* CameraFrameCapture.__init__; the deduplicator is constructed and idle
InitCapture ==
  /\ config \in Configs
  /\ scope = "out"
  /\ cap = Null
  /\ is_open = FALSE
  /\ handles = << >> /\ nread = 0
  /\ op = "init" /\ err = "none" /\ ret = NoValue /\ req = Null /\ got = NoValue
  /\ it_pc = "none"
  /\ ss_pc = "idle"
  /\ interval = 0 /\ filename_prefix = "frame"
  /\ last_save_time = 0 /\ frame_count = 0 /\ current_time = 0
  /\ frame = NoValue /\ first_iter = FALSE
  /\ pulls = 0 /\ attempts = << >> /\ written = << >> /\ save_times = << >>
  /\ clock = 0

Init ==
  /\ InitCapture
  /\ InitDeduplicator
  /\ directory = {} /\ label_files = {}

(* ------------------------ session operations --------------------------- *)
Open ==
  /\ Idle
  /\ is_open \/ CanAcquire
  /\ \E ok \in BOOLEAN : Store(open(Self, config, ok), "open")
  /\ UNCHANGED <<dedupVars, config, scope, iterVars, runVars, clock>>

Close ==
  /\ Idle
  /\ \E rel_ok \in BOOLEAN : Store(close(Self, rel_ok), "close")
  /\ UNCHANGED <<dedupVars, config, scope, iterVars, runVars, clock>>

Read ==
  /\ Idle
  /\ is_open \/ CanAcquire
  /\ \E open_ok, read_ok \in BOOLEAN :
       /\ read_ok => MayYield(Self)
       /\ Store(read(Self, config, open_ok, read_ok), "read")
  /\ UNCHANGED <<dedupVars, config, scope, iterVars, runVars, clock>>

GetActualProperties ==
  /\ Idle
  /\ is_open \/ CanAcquire
  /\ \E open_ok \in BOOLEAN : \E p \in Reported :
       Store(get_actual_properties(Self, config, open_ok, p[1], p[2], p[3]),
             "get_actual_properties")
  /\ UNCHANGED <<dedupVars, config, scope, iterVars, runVars, clock>>

(* --------------------------- the iterator ------------------------------ *)
\* iter(session): calling the generator function runs none of its body
Iter ==
  /\ Idle
  /\ it_pc = "none"
  /\ it_pc' = "created"
  /\ op' = "iter" /\ err' = "none" /\ ret' = NoValue /\ req' = Null /\ got' = NoValue
  /\ UNCHANGED <<dedupVars, sessVars, runVars, clock>>

\* __iter__ from its first line to the first yield
iter_start(s, cfg, open_ok, read_ok) ==
  LET o == IF ~s.is_open THEN open(s, cfg, open_ok) ELSE s IN
  IF o.err # "none" THEN o ELSE read(o, cfg, open_ok, read_ok)

\* a generator that survives the exception of a read and can be resumed
IterNext_resume ==
  /\ Idle
  /\ it_pc \in {"created", "suspended", "done"}
  /\ IF it_pc = "done"
       THEN /\ op' = "next" /\ err' = "StopIteration" /\ ret' = NoValue /\ req' = Null /\ got' = NoValue
            /\ UNCHANGED <<cap, is_open, handles, nread, iterVars>>
       ELSE /\ is_open \/ CanAcquire
            /\ \E open_ok, read_ok \in BOOLEAN :
                 LET r == IF it_pc = "created"
                            THEN iter_start(Self, config, open_ok, read_ok)
                            ELSE read(Self, config, open_ok, read_ok) IN
                 /\ read_ok => MayYield(Self)
                 /\ Store(r, "next")
                 /\ it_pc' = "suspended"
  /\ UNCHANGED <<dedupVars, config, scope, runVars, clock>>

\* next(it): runs the generator to its next yield, or to the exception
\* that ends it; an ended generator raises StopIteration
IterNext ==
  /\ Idle
  /\ it_pc \in {"created", "suspended", "done"}
  /\ IF it_pc = "done"
       THEN /\ op' = "next" /\ err' = "StopIteration" /\ ret' = NoValue /\ req' = Null /\ got' = NoValue
            /\ UNCHANGED <<cap, is_open, handles, nread, iterVars>>
       ELSE /\ is_open \/ CanAcquire
            /\ \E open_ok, read_ok \in BOOLEAN :
                 LET r == IF it_pc = "created"
                            THEN iter_start(Self, config, open_ok, read_ok)
                            ELSE read(Self, config, open_ok, read_ok) IN
                 /\ read_ok => MayYield(Self)
                 /\ Store(r, "next")
                 /\ it_pc' = IF r.err = "none" THEN "suspended" ELSE "done"
  /\ UNCHANGED <<dedupVars, config, scope, runVars, clock>>

\* KeyboardInterrupt delivered while next(it) runs the generator: __iter__
\* has no handler, the generator ends and the consumer gets the exception
IterInterrupt ==
  /\ Idle
  /\ it_pc \in {"created", "suspended"}
  /\ it_pc' = "done"
  /\ op' = "next" /\ err' = "KeyboardInterrupt" /\ ret' = NoValue /\ req' = Null /\ got' = NoValue
  /\ UNCHANGED <<dedupVars, sessVars, runVars, clock>>

\* the consumer drops the generator
IterDrop ==
  /\ Idle
  /\ it_pc # "none"
  /\ it_pc' = "none"
  /\ op' = "drop" /\ err' = "none" /\ ret' = NoValue /\ req' = Null /\ got' = NoValue
  /\ UNCHANGED <<dedupVars, sessVars, runVars, clock>>

(* ---------------------------- save_frame ------------------------------- *)
RECURSIVE Digits(_)
\* decimal digits of n, most significant first
Digits(n) == IF n < 10 THEN <<n>> ELSE Digits(n \div 10) \o <<n % 10>>

\* format spec 06d: at least six digits, zeros on the left
Format06d(n) ==
  LET ds == Digits(n) IN
  IF Len(ds) >= 6 THEN ds ELSE [i \in 1..(6 - Len(ds)) |-> 0] \o ds

\* f"{filename_prefix}_{frame_count:06d}.jpg"
FileName(prefix, n) == <<prefix, "_">> \o Format06d(n) \o <<".jpg">>

\* what save_frame hands to cv2.imwrite: a copy, back in BGR when the
\* session converts to RGB
frame_to_save(f, cfg) == IF cfg.convert_to_rgb THEN [f EXCEPT !.rgb = FALSE] ELSE f

(* ---------------------------- save_stream ------------------------------ *)
LoopPcs == {"top", "read", "save", "settime", "incr"}

\* the call: arguments bound, nothing executed yet.  The caller records
\* while no generator over the session is live.
SS_Call ==
  /\ Idle
  /\ it_pc = "none"
  /\ is_open \/ CanAcquire
  /\ interval' \in 0..MaxInterval
  /\ filename_prefix' \in Prefixes
  /\ ss_pc' = "entry"
  /\ op' = "save_stream" /\ err' = "none" /\ ret' = NoValue /\ req' = Null /\ got' = NoValue
  /\ UNCHANGED <<dedupVars, sessVars, iterVars, last_save_time, frame_count, current_time,
                 frame, first_iter, pulls, attempts, written, save_times, clock>>

\* save_stream is left: its locals are gone, the caller gets the exception e
\* or the value r
leave(pc, e, r) ==
  /\ ss_pc' = pc
  /\ err' = e
  /\ ret' = r
  /\ last_save_time' = 0 /\ frame_count' = 0 /\ current_time' = 0
  /\ frame' = NoValue /\ first_iter' = FALSE

\* line 169, reached by the break of line 164 or of line 167
return == leave("returned", "none",
                [type |-> "tuple", directory |-> "save_path", count |-> frame_count])

\* an exception e leaves save_stream
raise(e) == leave("raised", e, NoValue)

\* lines 142-149: implicit open, mkdir, the two locals
enter(open_ok) ==
  /\ ss_pc = "entry"
  /\ LET o == IF ~is_open THEN open(Self, config, open_ok) ELSE Self IN
       /\ cap' = o.cap /\ is_open' = o.is_open /\ handles' = o.handles
       /\ nread' = o.nread
       /\ req' = o.req /\ got' = o.got /\ op' = "save_stream"
       /\ IF o.err # "none"
            THEN raise(o.err)
            ELSE /\ ss_pc' = "top"
                 /\ last_save_time' = 0
                 /\ frame_count' = 0
                 /\ first_iter' = TRUE
                 /\ UNCHANGED <<err, ret, current_time, frame>>
  /\ UNCHANGED <<dedupVars, config, scope, iterVars, interval, filename_prefix,
                 pulls, attempts, written, save_times, clock>>

\* lines 153-156: t is what time.time() returns
gate(t) ==
  /\ ss_pc = "top"
  /\ current_time' = t
  /\ clock' = t
  /\ ss_pc' = IF t - last_save_time >= interval THEN "read" ELSE "top"
  /\ first_iter' = FALSE
  /\ req' = Null /\ got' = NoValue
  /\ UNCHANGED <<dedupVars, sessVars, op, err, ret, iterVars, interval, filename_prefix,
                 last_save_time, frame_count, frame, pulls, attempts, written, save_times>>

\* line 157 without the except clause of lines 166-167
pull_raise(open_ok, read_ok) ==
  /\ ss_pc = "read"
  /\ LET r == read(Self, config, open_ok, read_ok) IN
       /\ cap' = r.cap /\ is_open' = r.is_open /\ handles' = r.handles
       /\ nread' = r.nread
       /\ req' = r.req /\ got' = r.got /\ op' = "save_stream"
       /\ IF r.err = "none"
            THEN /\ frame' = r.ret
                 /\ pulls' = pulls + 1
                 /\ ss_pc' = "save"
                 /\ UNCHANGED <<err, ret, last_save_time, frame_count,
                                current_time, first_iter>>
            ELSE /\ pulls' = pulls
                 /\ raise(r.err)
  /\ UNCHANGED <<dedupVars, config, scope, iterVars, interval, filename_prefix, attempts,
                 written, save_times, clock>>

\* line 157, with the except clause of lines 166-167 and the return it leads to
pull(open_ok, read_ok) ==
  /\ ss_pc = "read"
  /\ LET r == read(Self, config, open_ok, read_ok) IN
       /\ cap' = r.cap /\ is_open' = r.is_open /\ handles' = r.handles
       /\ nread' = r.nread
       /\ req' = r.req /\ got' = r.got /\ op' = "save_stream"
       /\ IF r.err = "none"
            THEN /\ frame' = r.ret
                 /\ pulls' = pulls + 1
                 /\ ss_pc' = "save"
                 /\ UNCHANGED <<err, ret, last_save_time, frame_count,
                                current_time, first_iter>>
            ELSE /\ pulls' = pulls
                 /\ IF r.err = "CameraReadError" THEN return ELSE raise(r.err)
  /\ UNCHANGED <<dedupVars, config, scope, iterVars, interval, filename_prefix, attempts,
                 written, save_times, clock>>

\* the last two entries of a log
LastTwo(q) == IF Len(q) > 2 THEN SubSeq(q, Len(q) - 1, Len(q)) ELSE q

\* lines 158-159 with a failed write skipped: the loop goes on
save_skip(write_ok, at) ==
  /\ ss_pc = "save"
  /\ LET filename == FileName(filename_prefix, frame_count) IN
       /\ attempts' = Append(attempts, filename)
       /\ IF write_ok
            THEN /\ written' = Append(written,
                                 [name |-> filename,
                                  img  |-> frame_to_save(frame, config)])
                 /\ save_times' = LastTwo(Append(save_times,
                                     [t |-> current_time, at |-> at]))
                 /\ ss_pc' = "settime"
            ELSE /\ UNCHANGED <<written, save_times>>
                 /\ ss_pc' = "top"
  /\ clock' = at
  /\ req' = Null /\ got' = NoValue
  /\ UNCHANGED <<dedupVars, sessVars, op, iterVars, interval, filename_prefix, pulls,
                 err, ret, last_save_time, frame_count, current_time, frame,
                 first_iter>>

\* lines 158-159: write_ok is the flag of cv2.imwrite, at the time it ends
save(write_ok, at) ==
  /\ ss_pc = "save"
  /\ LET filename == FileName(filename_prefix, frame_count) IN
       /\ attempts' = Append(attempts, filename)
       /\ IF write_ok
            THEN /\ written' = Append(written,
                                 [name |-> filename,
                                  img  |-> frame_to_save(frame, config)])
                 /\ save_times' = LastTwo(Append(save_times,
                                     [t |-> current_time, at |-> at]))
                 /\ ss_pc' = "settime"
                 /\ UNCHANGED <<err, ret, last_save_time, frame_count,
                                current_time, frame, first_iter>>
            ELSE /\ UNCHANGED <<written, save_times>>
                 /\ raise("FrameSaveError")
  /\ clock' = at
  /\ req' = Null /\ got' = NoValue
  /\ UNCHANGED <<dedupVars, sessVars, op, iterVars, interval, filename_prefix, pulls>>

\* the loop without line 160
set_time_stale ==
  /\ ss_pc = "settime"
  /\ last_save_time' = last_save_time
  /\ ss_pc' = "incr"
  /\ req' = Null /\ got' = NoValue
  /\ UNCHANGED <<dedupVars, sessVars, op, err, ret, iterVars, interval, filename_prefix,
                 frame_count, current_time, frame, first_iter, pulls, attempts,
                 written, save_times, clock>>

\* line 160
set_time ==
  /\ ss_pc = "settime"
  /\ last_save_time' = current_time
  /\ ss_pc' = "incr"
  /\ req' = Null /\ got' = NoValue
  /\ UNCHANGED <<dedupVars, sessVars, op, err, ret, iterVars, interval, filename_prefix,
                 frame_count, current_time, frame, first_iter, pulls, attempts,
                 written, save_times, clock>>

\* the loop without line 161
incr_skip ==
  /\ ss_pc = "incr"
  /\ frame_count' = frame_count
  /\ ss_pc' = "top"
  /\ req' = Null /\ got' = NoValue
  /\ UNCHANGED <<dedupVars, sessVars, op, err, ret, iterVars, interval, filename_prefix,
                 last_save_time, current_time, frame, first_iter, pulls,
                 attempts, written, save_times, clock>>

\* line 161
incr ==
  /\ ss_pc = "incr"
  /\ frame_count' = frame_count + 1
  /\ ss_pc' = "top"
  /\ req' = Null /\ got' = NoValue
  /\ UNCHANGED <<dedupVars, sessVars, op, err, ret, iterVars, interval, filename_prefix,
                 last_save_time, current_time, frame, first_iter, pulls,
                 attempts, written, save_times, clock>>

SS_Enter  == \E open_ok \in BOOLEAN : enter(open_ok)
SS_Gate   == \E t \in clock..MaxClock : gate(t)
SS_Read   == \E open_ok, read_ok \in BOOLEAN :
               /\ read_ok => MayYield(Self)
               /\ pull(open_ok, read_ok)
SS_Save   == \E write_ok \in BOOLEAN : \E at \in clock..MaxClock : save(write_ok, at)
SS_SetTime == set_time
SS_Incr   == incr

\* KeyboardInterrupt delivered while save_stream runs: inside the try of
\* lines 152-161 the handler of line 163 breaks out of the loop and line 169
\* returns; in lines 142-149 nothing catches it
SS_Interrupt ==
  /\ ss_pc \in LoopPcs \cup {"entry"}
  /\ IF ss_pc \in LoopPcs THEN return ELSE raise("KeyboardInterrupt")
  /\ req' = Null /\ got' = NoValue
  /\ UNCHANGED <<dedupVars, sessVars, op, iterVars, interval, filename_prefix,
                 pulls, attempts, written, save_times, clock>>

\* the caller has taken the result (or the exception) of the call
SS_Done ==
  /\ ss_pc \in {"returned", "raised"}
  /\ ss_pc' = "idle"
  /\ interval' = 0 /\ filename_prefix' = "frame"
  /\ pulls' = 0 /\ attempts' = << >> /\ written' = << >> /\ save_times' = << >>
  /\ clock' = 0
  /\ req' = Null /\ got' = NoValue
  /\ UNCHANGED <<dedupVars, sessVars, op, err, ret, iterVars, last_save_time, frame_count,
                 current_time, frame, first_iter>>

(* -------------------------- visualize_stream --------------------------- *)
\* visualize_stream shares the position variable of save_stream: the
\* session runs one of the two at a time
VsPcs == {"vs_entry", "vs_loop", "vs_returned", "vs_raised"}

\* the call, nothing executed yet
VS_Call ==
  /\ Idle
  /\ it_pc = "none"
  /\ is_open \/ CanAcquire
  /\ ss_pc' = "vs_entry"
  /\ op' = "visualize_stream" /\ err' = "none" /\ ret' = NoValue /\ req' = Null /\ got' = NoValue
  /\ UNCHANGED <<dedupVars, sessVars, iterVars, interval, filename_prefix, last_save_time,
                 frame_count, current_time, frame, first_iter, pulls, attempts,
                 written, save_times, clock>>

\* lines 102-103
VS_Enter ==
  /\ ss_pc = "vs_entry"
  /\ \E open_ok \in BOOLEAN :
       LET o == IF ~is_open THEN open(Self, config, open_ok) ELSE Self IN
       /\ Store(o, "visualize_stream")
       /\ ss_pc' = IF o.err # "none" THEN "vs_raised" ELSE "vs_loop"
  /\ UNCHANGED <<dedupVars, config, scope, iterVars, interval, filename_prefix, last_save_time,
                 frame_count, current_time, frame, first_iter, pulls, attempts,
                 written, save_times, clock>>

\* lines 106-109: one frame read and shown; a CameraReadError is not caught
VS_Show ==
  /\ ss_pc = "vs_loop"
  /\ \E open_ok, read_ok \in BOOLEAN :
       LET r == read(Self, config, open_ok, read_ok) IN
       /\ read_ok => MayYield(Self)
       /\ Store([r EXCEPT !.ret = NoValue], "visualize_stream")
       /\ ss_pc' = IF r.err # "none" THEN "vs_raised" ELSE "vs_loop"
  /\ UNCHANGED <<dedupVars, config, scope, iterVars, interval, filename_prefix, last_save_time,
                 frame_count, current_time, frame, first_iter, pulls, attempts,
                 written, save_times, clock>>

\* KeyboardInterrupt: caught by line 110 inside the loop, by nothing in
\* lines 102-103
VS_Interrupt ==
  /\ ss_pc \in {"vs_entry", "vs_loop"}
  /\ ss_pc' = IF ss_pc = "vs_loop" THEN "vs_returned" ELSE "vs_raised"
  /\ err' = IF ss_pc = "vs_loop" THEN "none" ELSE "KeyboardInterrupt"
  /\ ret' = NoValue /\ req' = Null /\ got' = NoValue
  /\ UNCHANGED <<dedupVars, sessVars, op, iterVars, interval, filename_prefix,
                 last_save_time, frame_count, current_time, frame, first_iter,
                 pulls, attempts, written, save_times, clock>>

\* the caller is back in control
VS_Done ==
  /\ ss_pc \in {"vs_returned", "vs_raised"}
  /\ ss_pc' = "idle"
  /\ req' = Null /\ got' = NoValue
  /\ UNCHANGED <<dedupVars, sessVars, op, err, ret, iterVars, interval, filename_prefix,
                 last_save_time, frame_count, current_time, frame, first_iter,
                 pulls, attempts, written, save_times, clock>>

Next ==
  \/ Open \/ Close \/ Read \/ GetActualProperties
  \/ Iter \/ IterNext \/ IterInterrupt \/ IterDrop
  \/ SS_Call \/ SS_Enter \/ SS_Gate \/ SS_Read \/ SS_Save \/ SS_SetTime
  \/ SS_Incr \/ SS_Interrupt \/ SS_Done
  \/ VS_Call \/ VS_Enter \/ VS_Show \/ VS_Interrupt \/ VS_Done

Spec == Init /\ [][Next]_vars

(* ---------------------- a caller that reconfigures --------------------- *)
\* session.config = c (or an assignment to a field of session.config)
\* between two calls: __init__ stores the config in a public attribute
\* and every method reads self.config anew
SetConfig ==
  /\ Idle
  /\ config' \in Configs \ {config}
  /\ op' = "set_config" /\ err' = "none" /\ ret' = NoValue /\ req' = Null /\ got' = NoValue
  /\ UNCHANGED <<dedupVars, scope, cap, is_open, handles, nread, iterVars, runVars, clock>>

NextCfg == Open \/ Close \/ Read \/ SetConfig

SpecCfg == Init /\ [][NextCfg]_vars

(* ------------------------- the with statement -------------------------- *)
\* what a with body can end with: nothing, or an exception it lets through
BodyExits == {"none", "CameraReadError", "FrameSaveError", "KeyboardInterrupt"}

\* `with session:` evaluates __enter__; when open() raises, the body and
\* __exit__ are not run
WithEnter ==
  /\ Idle
  /\ scope = "out"
  /\ is_open \/ CanAcquire
  /\ \E ok \in BOOLEAN :
       LET o == open(Self, config, ok) IN
       /\ Store(o, "__enter__")
       /\ scope' = IF o.err = "none" THEN "in" ELSE "out"
  /\ UNCHANGED <<dedupVars, config, iterVars, runVars, clock>>

\* __exit__ that returns without closing
exit_keep(s, exc_type, rel_ok) == [s EXCEPT !.err = exc_type]

\* __exit__(exc_type, exc_val, exc_tb): close(), return None, so that the
\* exception the body ended with, if any, goes on to the caller
exit(s, exc_type, rel_ok) == [close(s, rel_ok) EXCEPT !.err = exc_type]

\* the body of the with block is left, normally or by an exception
WithExit ==
  /\ Idle
  /\ scope = "in"
  /\ \E exc_type \in BodyExits : \E rel_ok \in BOOLEAN :
       Store(exit(Self, exc_type, rel_ok), "__exit__")
  /\ scope' = "out"
  /\ UNCHANGED <<dedupVars, config, iterVars, runVars, clock>>

NextWith == WithEnter \/ Read \/ Close \/ WithExit

SpecWith == Init /\ [][NextWith]_vars

(* ------------------ a consumer that closes in between ------------------ *)
\* one iterator over the session and close() calls between its pulls;
\* here only the generator opens the session
NextIter == Iter \/ IterNext \/ Close

SpecIter == Init /\ [][NextIter]_vars

(* ------------------------- ImageDeduplicator --------------------------- *)
Chars == <<"1", "2", "3", "4", "5", "6", "7", "8", "9">>
\* file names are strings: sequences of characters
ImageName(i) == <<Chars[i], ".", "j", "p", "g">>
Images == { ImageName(i) : i \in 1..MaxImages }

RECURSIVE LastDot(_, _)
\* index of the last "." of name at or before position k, 0 when none
LastDot(name, k) ==
  IF k = 0 THEN 0
  ELSE IF name[k] = "." THEN k ELSE LastDot(name, k - 1)

\* Path(file).with_suffix('.txt')
with_suffix_txt(name) ==
  LET d == LastDot(name, Len(name)) IN
  (IF d = 0 THEN name ELSE SubSeq(name, 1, d - 1)) \o <<".", "t", "x", "t">>

\* image_dir / file, labels_dir / file, as str
PathIn(dir, name) == [dir |-> dir, name |-> name]

Dict(m) == [type |-> "dict", items |-> m]
SetOf(S) == [type |-> "set", elems |-> S]

\* what CNN.find_duplicates(image_dir, threshold) can answer for the files
\* D: for every file the files whose similarity to it reaches the
\* threshold, never the file itself; similarity is symmetric
Pairs(D) == { P \in SUBSET D : Cardinality(P) = 2 }
SymmetricMaps(D) ==
  { [f \in D |-> { g \in D : {f, g} \in E }] : E \in SUBSET Pairs(D) }

\* set.update(iterable) with a str argument adds the characters of the str
update_str(S, name) == S \cup { name[k] : k \in 1..Len(name) }

\* the fields find_duplicates assigns, for the answer m of the CNN
find_duplicates(m) ==
  /\ image_dir' = [type |-> "str", value |-> "image_dir"]
  /\ duplicates_map' = Dict(m)
  /\ files_with_duplicates' =
       SetOf(UNION { update_str({}, f) : f \in { g \in DOMAIN m : m[g] # {} } })
  /\ duplicates' = SetOf(UNION { m[f] : f \in DOMAIN m })

FindDuplicates ==
  /\ dd_pc = "idle"
  /\ \E m \in SymmetricMaps(directory) : find_duplicates(m)
  /\ dd_err' = "none"
  /\ UNCHANGED <<captureVars, directory, label_files, dd_pc, dry_run,
                 labels_dir, pending, removed_files>>

\* delete_duplicates up to its for loop: lines 59-65
DD_Call ==
  /\ dd_pc = "idle"
  /\ \E dry \in BOOLEAN, lab \in BOOLEAN : dry_run' = dry /\ labels_dir' = lab
  /\ IF duplicates_map = NoValue
       THEN \E m \in SymmetricMaps(directory) : find_duplicates(m)
       ELSE UNCHANGED <<image_dir, duplicates_map, files_with_duplicates,
                        duplicates>>
  /\ pending' = duplicates'.elems
  /\ removed_files' = << >>
  /\ dd_pc' = "loop"
  /\ dd_err' = "none"
  /\ UNCHANGED <<captureVars, directory, label_files>>

\* one iteration of `for file in self.duplicates`, in the order the set
\* hands its elements out; unlink() of a missing file raises
DD_Step ==
  /\ dd_pc = "loop"
  /\ \E file \in pending :
       LET label    == with_suffix_txt(file)
           img_ok   == dry_run \/ file \in directory
           lab_ok   == ~labels_dir \/ dry_run \/ label \in label_files
           removed1 == Append(removed_files, PathIn("image_dir", file))
           removed2 == IF labels_dir
                         THEN Append(removed1, PathIn("labels_dir", label))
                         ELSE removed1 IN
       /\ directory' = IF dry_run \/ ~img_ok THEN directory
                                             ELSE directory \ {file}
       /\ label_files' = IF labels_dir /\ ~dry_run /\ img_ok /\ lab_ok
                           THEN label_files \ {label}
                           ELSE label_files
       /\ IF ~img_ok
            THEN /\ removed_files' = removed1
                 /\ dd_pc' = "idle" /\ dd_err' = "FileNotFoundError"
                 /\ pending' = {}
            ELSE IF ~lab_ok
              THEN /\ removed_files' = removed2
                   /\ dd_pc' = "idle" /\ dd_err' = "FileNotFoundError"
                   /\ pending' = {}
              ELSE /\ removed_files' = removed2
                   /\ pending' = pending \ {file}
                   /\ UNCHANGED <<dd_pc, dd_err>>
  /\ UNCHANGED <<captureVars, image_dir, duplicates_map, files_with_duplicates,
                 duplicates, dry_run, labels_dir>>

\* the loop is over: lines 80-85
DD_Return ==
  /\ dd_pc = "loop"
  /\ pending = {}
  /\ IF ~dry_run
       THEN /\ duplicates_map' = NoValue
            /\ duplicates' = NoValue
            /\ image_dir' = NoValue
       ELSE UNCHANGED <<duplicates_map, duplicates, image_dir>>
  /\ dd_pc' = "idle"
  /\ dd_err' = "none"
  /\ UNCHANGED <<captureVars, directory, label_files, files_with_duplicates,
                 dry_run, labels_dir, pending, removed_files>>

\* a directory of MaxImages images; every image but possibly the first has
\* its label file
InitDedup ==
  /\ InitCapture
  /\ config = [source |-> 0, width |-> None, height |-> None, fps |-> None,
               convert_to_rgb |-> FALSE]
  /\ InitDeduplicator
  /\ directory = Images
  /\ label_files \in { { with_suffix_txt(f) : f \in Images \ X } :
                         X \in { {}, {ImageName(1)} } }

NextDedup == FindDuplicates \/ DD_Call \/ DD_Step \/ DD_Return

SpecDedup == InitDedup /\ [][NextDedup]_vars

(* ------------------- the end-to-end recording scenario ------------------ *)
\* A fresh session on a source that opens, yields ScenarioFrames frames and
\* then fails every read; save_stream(path, 0, prefix) runs with no
\* KeyboardInterrupt and an image writer that never fails.
InitE2E ==
  /\ config \in Configs
  /\ scope = "out"
  /\ cap = Null /\ is_open = FALSE /\ handles = << >> /\ nread = 0
  /\ op = "save_stream" /\ err = "none" /\ ret = NoValue /\ req = Null /\ got = NoValue
  /\ it_pc = "none"
  /\ ss_pc = "entry"
  /\ interval = 0 /\ filename_prefix \in Prefixes
  /\ last_save_time = 0 /\ frame_count = 0 /\ current_time = 0
  /\ frame = NoValue /\ first_iter = FALSE
  /\ pulls = 0 /\ attempts = << >> /\ written = << >> /\ save_times = << >>
  /\ clock = 0
  /\ InitDeduplicator
  /\ directory = {} /\ label_files = {}

E2E_Enter   == enter(TRUE)
E2E_Gate    == \E t \in clock..MaxClock : gate(t)
E2E_Read    == pull(TRUE, nread < ScenarioFrames)
E2E_Save    == \E at \in clock..MaxClock : save(TRUE, at)
E2E_SetTime == set_time
E2E_Incr    == incr

NextE2E ==
  \/ E2E_Enter \/ E2E_Gate \/ E2E_Read \/ E2E_Save \/ E2E_SetTime \/ E2E_Incr

\* the interpreter keeps executing the single thread that runs save_stream
SpecE2E == InitE2E /\ [][NextE2E]_vars /\ WF_vars(NextE2E)

(* ------------------------------ claims --------------------------------- *)
RECURSIVE Value(_)
\* the number a digit string denotes
Value(ds) == IF ds = << >> THEN 0
             ELSE 10 * Value(SubSeq(ds, 1, Len(ds) - 1)) + ds[Len(ds)]

\* the handle self._cap refers to was opened and has not been released
LiveHandle ==
  /\ cap # Null
  /\ cap \in DOMAIN handles
  /\ handles[cap].opened
  /\ handles[cap].releases = 0

\* C1: in every reachable state, whatever calls succeeded or failed before,
\* _is_open is true exactly when _cap is a handle that opened successfully
\* and has not been released.
C1_OpenIffLiveHandle == is_open <=> LiveHandle

\* a read failed on an open session that had been closed and reopened before
C1_Witness ==
  /\ is_open /\ LiveHandle
  /\ op = "read" /\ err = "CameraReadError"
  /\ Len(handles) = 2

\* C2: open() on an open session acquires no handle, applies no property,
\* keeps _cap and _is_open and raises nothing.
C2_OpenTwiceNoOp ==
  [][(op' = "open" /\ is_open) =>
       /\ handles' = handles
       /\ cap' = cap
       /\ is_open'
       /\ err' = "none"]_vars

\* open() returned on a session whose handle had already delivered a frame:
\* the session was open when open() was called
C2_Witness ==
  /\ op = "open" /\ is_open /\ LiveHandle
  /\ nread > 0
  /\ Len(handles) = 1

\* C3: close() raises nothing and leaves _is_open false and _cap None, on an
\* open session, a never-opened one, a closed one, and when release() fails;
\* the handle it found is released exactly once, no other handle is touched.
C3_CloseAlwaysResets ==
  [][op' = "close" =>
       /\ err' = "none"
       /\ ~is_open'
       /\ cap' = Null
       /\ IF cap # Null
            THEN /\ handles'[cap].releases = 1
                 /\ handles[cap].releases = 0
                 /\ \A h \in DOMAIN handles : h # cap => handles'[h] = handles[h]
                 /\ DOMAIN handles' = DOMAIN handles
            ELSE handles' = handles]_vars

\* close() returned although the release of its handle failed
C3_Witness ==
  /\ op = "close" /\ err = "none" /\ ~is_open /\ cap = Null
  /\ \E h \in DOMAIN handles :
       handles[h].opened /\ handles[h].releases = 1 /\ handles[h].acquired

\* C4: open() on a closed session whose source does not open raises
\* CameraOpenError after releasing the capture it constructed, and leaves
\* _is_open false and _cap None.
C4_FailedOpenReleases ==
  [][(op' = "open" /\ ~is_open /\ Len(handles') > Len(handles)
        /\ ~handles'[Len(handles')].opened) =>
       /\ err' = "CameraOpenError"
       /\ Len(handles') = Len(handles) + 1
       /\ handles'[Len(handles')].releases = 1
       /\ ~handles'[Len(handles')].acquired
       /\ SubSeq(handles', 1, Len(handles)) = handles
       /\ ~is_open'
       /\ cap' = Null]_vars

\* open() failed
C4_Witness ==
  /\ op = "open" /\ err = "CameraOpenError"
  /\ ~is_open /\ cap = Null
  /\ ~handles[Len(handles)].opened

\* C5: read() on a closed session opens it first.  When the open fails the
\* call raises CameraOpenError, calls no backend read and leaves the session
\* closed; when it succeeds the backend read is made on the new handle.
C5_ReadOpensFirst ==
  [][(op' = "read" /\ ~is_open) =>
       /\ Len(handles') = Len(handles) + 1
       /\ IF handles'[Len(handles')].opened
            THEN /\ is_open' /\ cap' = Len(handles')
                 /\ req' = Len(handles')
                 /\ err' \in {"none", "CameraReadError"}
            ELSE /\ err' = "CameraOpenError"
                 /\ req' = Null
                 /\ ~is_open' /\ cap' = Null
                 /\ nread' = nread]_vars

\* read() on a closed session failed in its implicit open
C5_Witness ==
  /\ op = "read" /\ err = "CameraOpenError" /\ req = Null
  /\ ~is_open /\ cap = Null

\* C6: the first iteration of a save_stream run passes the gate and goes on
\* to pull a frame, whatever the interval and whatever time.time() returns.
C6_FirstFrameEligible ==
  [][(ss_pc = "top" /\ first_iter /\ ss_pc' \in {"top", "read"}) =>
       ss_pc' = "read"]_vars

\* C7 as stated: the times at which two consecutive frames of a run were
\* written differ by at least the interval.
C7_WriteTimesApart ==
  Len(save_times) = 2 => save_times[2].at - save_times[1].at >= interval

\* C7 amended: the time.time() readings of the iterations that saved two
\* consecutive frames of a run differ by at least the interval.
C7_GateReadingsApart ==
  Len(save_times) = 2 => save_times[2].t - save_times[1].t >= interval

\* two frames saved under a positive interval
C7_Witness ==
  /\ interval > 0
  /\ Len(written) >= 2
  /\ Len(save_times) = 2
  /\ save_times[2].t - save_times[1].t = interval
  /\ save_times[1].at > save_times[1].t

\* C8: a save_stream run with interval 0 returns the number of frames it
\* pulled, whether a failed read or a KeyboardInterrupt ended it.
C8_CountEqualsPulls ==
  (ss_pc = "returned" /\ interval = 0) => ret.count = pulls

\* C9: the k-th write attempt of a run uses <prefix>_<k-1 as six digits>.jpg,
\* so the indices are 0, 1, 2, ... with none repeated and none skipped.
C9_SequentialNames ==
  \A k \in 1..Len(attempts) :
    LET a == attempts[k] IN
    /\ Len(a) = 9
    /\ a[1] = filename_prefix /\ a[2] = "_" /\ a[9] = ".jpg"
    /\ \A i \in 3..8 : a[i] \in 0..9
    /\ Value(SubSeq(a, 3, 8)) = k - 1

\* a run has made three write attempts
C9_Witness ==
  /\ Len(attempts) = 3
  /\ Len(written) = 3

\* the files <prefix>_000000.jpg .. <prefix>_(n-1).jpg, for n up to 10
ExpectedFiles(prefix, n) ==
  [k \in 1..n |-> <<prefix, "_", 0, 0, 0, 0, 0, k - 1, ".jpg">>]

\* C10: on a source of ScenarioFrames frames that then fails every read,
\* save_stream with interval 0, no interrupt and no save failure ends by
\* returning the count ScenarioFrames, having written exactly the files
\* numbered 0 .. ScenarioFrames-1.
C10_RunCompletes ==
  <>( /\ ss_pc = "returned"
      /\ ret.count = ScenarioFrames
      /\ [k \in 1..Len(written) |-> written[k].name]
           = ExpectedFiles(filename_prefix, ScenarioFrames)
      /\ attempts = ExpectedFiles(filename_prefix, ScenarioFrames) )

\* the scenario run with prefix "f" has returned its five-file result
C10_Witness ==
  /\ ss_pc = "returned"
  /\ filename_prefix = "f"
  /\ ret.count = ScenarioFrames
  /\ Len(written) = ScenarioFrames
  /\ written[ScenarioFrames].name = FileName("f", ScenarioFrames - 1)
\* C11: a CameraReadError raised by the frame pull of the loop is caught:
\* whatever the interval, save_stream returns the directory and the count
\* accumulated so far, and raises nothing.
C11_ReadErrorEndsRun ==
  [][(ss_pc = "read" /\ req' # Null /\ nread' = nread) =>
       /\ ss_pc' = "returned"
       /\ err' = "none"
       /\ ret' = [type |-> "tuple", directory |-> "save_path",
                  count |-> frame_count]
       /\ frame_count = Len(written)]_vars

\* a run with a positive interval saved a frame and was ended by a failed read
C11_Witness ==
  /\ ss_pc = "returned" /\ err = "none"
  /\ req # Null /\ nread = pulls
  /\ interval > 0
  /\ ret.count = 1 /\ Len(written) = 1
\* C12: a KeyboardInterrupt delivered during save_stream, visualize_stream
\* or a step of the frame iterator never reaches the caller as an exception.
C12_InterruptNeverRaises == err # "KeyboardInterrupt"
\* C13: a FrameSaveError of the write step of the loop leaves save_stream as
\* an exception: no result is returned and the run pulls and writes nothing
\* more.
C13_SaveErrorPropagates ==
  [][ /\ (ss_pc = "save" /\ Len(attempts') > Len(attempts) /\ written' = written)
         => (ss_pc' = "raised" /\ err' = "FrameSaveError" /\ ret' = NoValue)
      /\ ss_pc = "raised"
         => (ss_pc' = "idle" /\ nread' = nread /\ req' = Null
             /\ err' = err /\ ret' = ret) ]_vars

\* the second write of a run failed
C13_Witness ==
  /\ ss_pc = "raised" /\ err = "FrameSaveError" /\ ret = NoValue
  /\ Len(written) = 1 /\ Len(attempts) = 2 /\ pulls = 2
\* what C14 says get_actual_properties makes of a reported value
Substituted(x) == IF x > 0 THEN x ELSE 0

\* C14: get_actual_properties returns each reported component when it is
\* positive and 0 when the backend reports zero or a negative value.
C14_NonPositiveBecomesZero ==
  (op = "get_actual_properties" /\ err = "none") =>
     /\ is_open
     /\ ret.width  = Substituted(got.width)
     /\ ret.height = Substituted(got.height)
     /\ ret.fps    = Substituted(got.fps)
\* a frame the session can hold: read from a handle, converted or not
Frames == { Frame(h, n, rgb) : h \in 1..MaxHandles, n \in 1..MaxReads, rgb \in BOOLEAN }

\* C15: changing the configuration of an open session changes nothing
\* about what follows: the next read, the next save_frame of any frame, and
\* a close followed by an open give the same results and leave the same
\* session as they would have without the change.
C15_ConfigFixedAtOpen ==
  [][(config' # config /\ is_open) =>
       /\ \A read_ok \in BOOLEAN :
            read(Self, config', TRUE, read_ok) = read(Self, config, TRUE, read_ok)
       /\ \A f \in Frames : frame_to_save(f, config') = frame_to_save(f, config)
       /\ \A ok \in BOOLEAN :
            open(close(Self, TRUE), config', ok) = open(close(Self, TRUE), config, ok)]_vars

\* C16: however the body of a with block ends (normally, or with
\* CameraReadError, FrameSaveError or KeyboardInterrupt), the session is
\* left closed, the handle it held has been told to release, no handle is
\* left that was not, and the exception of the body goes on; when
\* __enter__ fails with CameraOpenError the block is not entered and the
\* capture it constructed holds nothing.
C16_ScopeReleases ==
  [][ /\ (scope = "in" /\ scope' = "out") =>
           /\ op' = "__exit__" /\ err' \in BodyExits
           /\ ~is_open' /\ cap' = Null
           /\ cap # Null => handles'[cap].releases = handles[cap].releases + 1
           /\ \A h \in DOMAIN handles' : handles'[h].releases = 1
      /\ (op' = "__enter__" /\ err' # "none") =>
           /\ err' = "CameraOpenError"
           /\ scope' = "out" /\ ~is_open' /\ cap' = Null
           /\ Len(handles') = Len(handles) + 1
           /\ ~handles'[Len(handles')].acquired
           /\ handles'[Len(handles')].releases = 1 ]_vars

\* after an __enter__ that failed, a block was entered and its body ended
\* with CameraReadError: the exception is on its way to the caller, the
\* session is closed and neither capture holds anything
C16_Witness ==
  /\ op = "__exit__" /\ err = "CameraReadError" /\ scope = "out"
  /\ ~is_open /\ cap = Null
  /\ Len(handles) = 2
  /\ ~handles[1].opened /\ handles[1].releases = 1 /\ ~handles[1].acquired
  /\ handles[2].opened /\ handles[2].releases = 1 /\ ~handles[2].acquired

\* C17: a next() on a live iterator that returns, returns the frame of one
\* successful backend read, the next frame of the handle in use; a next()
\* whose backend read fails raises CameraReadError and ends the iterator;
\* StopIteration is raised by an ended iterator only, and an ended iterator
\* yields nothing, reads nothing and leaves the session as it is.
C17_IteratorContract ==
  [][op' = "next" =>
       /\ (it_pc # "done" /\ err' = "none") =>
            /\ req' # Null /\ req' = cap'
            /\ nread' = (IF cap' = cap THEN nread ELSE 0) + 1
            /\ ret' = Frame(req', nread', config.convert_to_rgb)
            /\ it_pc' = "suspended"
       /\ (it_pc # "done" /\ req' # Null /\ err' # "none") =>
            /\ err' = "CameraReadError"
            /\ nread' = (IF cap' = cap THEN nread ELSE 0)
            /\ ret' = NoValue
            /\ it_pc' = "done"
       /\ (err' = "StopIteration") <=> (it_pc = "done")
       /\ it_pc = "done" =>
            /\ req' = Null /\ ret' = NoValue /\ it_pc' = "done"
            /\ UNCHANGED <<cap, is_open, handles, nread>>]_vars

\* the third next() of an iterator failed in its backend read after two
\* frames of the same handle
C17_Witness ==
  /\ op = "next" /\ err = "CameraReadError" /\ it_pc = "done"
  /\ req = cap /\ is_open /\ nread = 2 /\ Len(handles) = 1

\* C18: a next() on a suspended iterator whose session has been closed
\* constructs a new capture.  When that capture opens, the session is open
\* on it, the released handle is left alone, the backend read is made on
\* the new handle, and the frame returned is the first frame of the new
\* handle; when it does not open, the pull raises CameraOpenError.  (A pull
\* cut short by KeyboardInterrupt is not a pull that resumed the iteration.)
C18_PullReopens ==
  [][(op' = "next" /\ it_pc = "suspended" /\ ~is_open
        /\ err' # "KeyboardInterrupt") =>
       /\ Len(handles') = Len(handles) + 1
       /\ \A h \in DOMAIN handles : handles'[h] = handles[h]
       /\ IF handles'[Len(handles')].opened
            THEN /\ is_open' /\ cap' = Len(handles')
                 /\ handles'[cap'].acquired /\ handles'[cap'].releases = 0
                 /\ req' = cap'
                 /\ err' \in {"none", "CameraReadError"}
                 /\ err' = "none" =>
                      ret' = Frame(cap', 1, config.convert_to_rgb)
            ELSE /\ err' = "CameraOpenError" /\ req' = Null
                 /\ ~is_open' /\ cap' = Null]_vars

\* the iterator yielded two frames of the first handle, the session was
\* closed, and the next pull returned the first frame of a second handle
C18_Witness ==
  /\ op = "next" /\ err = "none" /\ it_pc = "suspended"
  /\ Len(handles) = 2 /\ cap = 2 /\ is_open
  /\ handles[1].opened /\ handles[1].releases = 1
  /\ handles[2].opened /\ handles[2].releases = 0
  /\ ret = Frame(2, 1, config.convert_to_rgb) /\ nread = 1

\* C19: whenever save_stream has returned, the count it returned is the
\* number of files the run wrote, wherever in the loop a KeyboardInterrupt
\* arrived.
C19_CountEqualsFiles ==
  ss_pc = "returned" => ret.count = Len(written)

\* a group of mutually duplicate images under the map m
Groups(m) ==
  { G \in SUBSET DOMAIN m :
      /\ Cardinality(G) >= 2
      /\ \A f \in G : \A g \in G \ {f} : g \in m[f] }

\* C20: when delete_duplicates(dry_run=False) returns, of every group of
\* mutually duplicate images of the map it worked from at least one image
\* is still in the directory.
C20_GroupKeepsOne ==
  [][(dd_pc = "loop" /\ dd_pc' = "idle" /\ dd_err' = "none" /\ ~dry_run) =>
       \A G \in Groups(duplicates_map.items) : G \cap directory' # {}]_vars

====
